---- MODULE Spec2Model ----
(***************************************************************************)
(* Model of jellyfuzz.                                                     *)
(*   Spec        the engine execution fabric (src/src/runner/pool.rs and   *)
(*               process.rs): the FuzzPool dispatcher with its admission   *)
(*               semaphore, the FuzzWorker job loop with the stability     *)
(*               filter, the shared EdgeTracker and the FuzzProcess driver *)
(*   SpecDriver  FuzzProcess::execute taken one step at a time             *)
(*   SpecCorpus  the CorpusManager (src/src/corpus/manager.rs) and the     *)
(*               files of its directory, with calls that fail and runs     *)
(*               that stop between two file-system steps                   *)
(*   SpecLoop    ingest_initial_corpus and run_fuzz_loop with its result   *)
(*               tasks (src/src/main.rs) on top of the CorpusManager       *)
(*   SpecSplice  SpliceMutator::splice (src/src/mutators/splice.rs) with   *)
(*               the renamers of src/src/mutators/scope.rs                 *)
(***************************************************************************)
EXTENDS Integers, Sequences, FiniteSets, TLC

\* ------------------------------------------------------------------ bounds
\* num_workers handed to FuzzPool::new
NumWorkers == 2
\* profile.fuzz_worker_job_queue_size(), scaled down from 1000
QueueSize == 1
\* number of schedule_job calls explored
MaxJobs == 3
\* number of edge ids of the coverage bitmap (cov_ctx.num_edges)
NumEdges == 2
\* EdgeTracker.max_resets, scaled down from 1000
MaxResets == 2
\* profile.get_jobs_per_process(), scaled down from 400
MaxExecutions == 2
\* number of execute calls explored on the single driver
MaxCalls == 4
\* number of CorpusManager calls explored
MaxOps == 3
\* size of the range of compute_fingerprint, scaled down from 2^64
FingerprintSpace == 251
\* handles.len() at which run_fuzz_loop awaits its tasks, scaled down from 10000
BatchSize == 2
\* number of passes through the body of run_fuzz_loop explored
MaxIterations == 3
\* number of files ingest_initial_corpus reads
MaxIngest == 1

Workers == 0 .. (NumWorkers - 1)
JobIds == 1 .. MaxJobs
Edges == 1 .. NumEdges
NoJob == MaxJobs + 1

\* script_bytes handed to the corpus manager
Scripts == {<<0>>, <<0, 1>>}
\* reward values handed to the corpus manager
Rewards == {0, 1}
\* ids next_id can take within MaxOps calls
Ids == 0 .. MaxOps

\* 4-byte status words the engine may write on the control pipe:
\* clean exit, exit code 1, killed by signal 11
RawStatuses == {0, 256, 11}

VARIABLES
    queues,        \* FuzzWorker.job_queue: per worker, the jobs in its mpsc channel
    next_worker,   \* FuzzPool.next_worker
    permits,       \* free permits of FuzzPool.job_capacity
    sched,         \* position of the schedule_job call in flight
    njobs,         \* number of jobs built so far
    jst,           \* per job: where the Job value is, "done" once its result was sent
    wpc,           \* per worker: position in run / start_internal
    wjob,          \* per worker: the job it has dequeued
    proc,          \* per worker: FuzzProcess.child and its pipes
    crt,           \* per worker: FuzzProcess.crt_executions
    virgin,        \* per worker: CovContext.virgin_bits
    exec_status,   \* per worker: exec_status of start_internal
    cand,          \* per worker: candidate_edges of confirm_new_edges
    second,        \* per worker: second_slice of confirm_new_edges
    second_status, \* per worker: exec_status of confirm_new_edges
    wres,          \* per worker: job_result built by start_internal
    werr,          \* per worker: the error run() returned with
    seen,          \* EdgeTracker.seen_edges
    blacklist,     \* EdgeTracker.blacklist (absent key = 0)
    drv,           \* one FuzzProcess followed through the steps of execute
    mgr_up,        \* whether a CorpusManager value exists (the process runs)
    entries,       \* CorpusManager.entries
    next_id,       \* CorpusManager.next_id
    root_files,    \* <root>/seed_<id>.js: id -> bytes, for the files that exist
    timeout_files, \* <root>/timeouts/seed_<id>.js: id -> bytes
    metadata,      \* <root>/metadata.json
    metadata_tmp,  \* <root>/metadata.json.tmp
    ret,           \* the last CorpusManager call and what it returned
    id_log,        \* the ids add_entry has put into a file name, in order
    ops,           \* number of CorpusManager calls made
    iteration,     \* iteration of run_fuzz_loop
    total_iterations, \* total_iterations of run_fuzz_loop
    handles,       \* handles.len() of run_fuzz_loop
    ingested,      \* files ingest_initial_corpus has handled
    tasks,         \* the result tasks spawned in the current batch
    crash_files,   \* <root>/crashes/crash_<iter>.js: iter -> bytes
    stats,         \* MutatorStats of the mutator in use
    saved_crashes, \* the scripts persist_crash has returned Ok for
    spl            \* the SpliceMutator::splice call in flight

vars == <<queues, next_worker, permits, sched, njobs, jst, wpc, wjob,
          proc, crt, virgin, exec_status, cand, second, second_status,
          wres, werr, seen, blacklist, drv,
          mgr_up, entries, next_id, root_files, timeout_files, metadata,
          metadata_tmp, ret, id_log, ops,
          iteration, total_iterations, handles, ingested, tasks, crash_files,
          stats, saved_crashes, spl>>

poolVars == <<queues, next_worker, permits, sched, njobs>>
covVars == <<virgin>>
trackerVars == <<seen, blacklist>>
confirmVars == <<cand, second, second_status>>
\* the variables the pool and its workers never touch
memVars == <<entries, next_id>>
diskVars == <<root_files, timeout_files, metadata, metadata_tmp>>
corpusVars == <<mgr_up, memVars, diskVars, ret, id_log, ops>>
loopVars == <<iteration, total_iterations, handles, ingested, tasks,
              crash_files, stats, saved_crashes>>
outsidePool == <<drv, corpusVars, loopVars, spl>>

Max(a, b) == IF a >= b THEN a ELSE b

NoStatus == [kind |-> "none", raw |-> 0]

\* ------------------------------------------------------ FuzzProcess driver

\* restart(): kill, reap, launch_process. Err leaves the killed child.
Restart == {[ok |-> TRUE, proc |-> "spawned"], [ok |-> FALSE, proc |-> "dead"]}

\* handshake() on a freshly spawned child.
Handshake == {[ok |-> TRUE, proc |-> "ready"],
              [ok |-> FALSE, proc |-> "spawned"],
              [ok |-> FALSE, proc |-> "dead"]}

\* self.process.restart()?; self.process.handshake()?;
RestartHandshake ==
    {[ok |-> FALSE, err |-> "restart", proc |-> r.proc] : r \in {r \in Restart : ~r.ok}}
    \cup {[ok |-> h.ok, err |-> IF h.ok THEN "none" ELSE "handshake", proc |-> h.proc] :
            h \in Handshake}

\* decoding of the status word
SignalOf(raw) == raw % 256
ExitCodeOf(raw) == (raw \div 256) % 256

\* the write of "exec", the script, and read_status_with_timeout, on child p
\* with c executions done
ExecBody(p, c) ==
    IF p = "dead"
    THEN {[kind |-> "ioerr", raw |-> 0, proc |-> "dead", crt |-> c]}
    ELSE {[kind |-> "ok", raw |-> raw, proc |-> p, crt |-> c + 1] : raw \in RawStatuses}
         \cup {[kind |-> "timeout", raw |-> 0, proc |-> "dead", crt |-> c],
               [kind |-> "eof", raw |-> 0, proc |-> "dead", crt |-> c],
               [kind |-> "ioerr", raw |-> 0, proc |-> p, crt |-> c]}

\* execute(): the budget restart, then the execution proper
Execute(p, c) ==
    IF c >= MaxExecutions
    THEN ExecBody("ready", 0)
         \cup {[kind |-> "ioerr", raw |-> 0, proc |-> h.proc, crt |-> c] :
                 h \in {h \in Handshake : ~h.ok}}
    ELSE ExecBody(p, c)

IsErr(st) == st.kind \in {"timeout", "eof", "ioerr"}
IsTimedOut(st) == st.kind = "timeout"


\* ------------------------------------------------------- coverage context

\* cov_evaluate: the edges of the bitmap that are still virgin are reported
\* and lose their virgin bit; the return value is 1 iff there is one
Evaluate(bm, vg) ==
    [new_cov |-> (bm \cap vg) # {}, edges |-> bm \cap vg, virgin |-> vg \ bm]

\* cov_clear_edge_data for every edge of es: the edges are virgin again
ClearEdgeData(vg, es) == vg \cup es

\* ------------------------------------------------------- stability filter

\* variant: every edge of the second run counts as stable
StableEdgesAll(C, S) == S

\* stable_edges: the edges of the second run that are candidates
StableEdges(C, S) == {e \in S : e \in C}

\* the keys of aux_tracker: candidates missing from the second run, and
\* second-run edges that are no candidates; each is counted once
AuxTracker(C, S) == {e \in C : e \notin S} \cup {e \in S : e \notin C}

\* tracker.blacklist after the counts of aux_tracker were added
BumpBlacklist(bl, aux) == [e \in Edges |-> IF e \in aux THEN bl[e] + 1 ELSE bl[e]]

\* variant: the seen set is not consulted
CuratedNoSeen(stable, bl, sn) == {e \in stable : ~(bl[e] >= MaxResets)}

\* variant: the blacklist is not consulted
CuratedNoBlacklist(stable, bl, sn) == {e \in stable : e \notin sn}

\* stable_edges_curated
Curated(stable, bl, sn) == {e \in stable : ~(bl[e] >= MaxResets \/ e \in sn)}

\* variant: the returned edges are not recorded
InsertSeenNone(sn, cur) == sn

\* tracker.seen_edges after the insert of every returned edge
InsertSeen(sn, cur) == sn \cup cur

\* variant: the candidates survive a failed re-execution
ConfirmExecFailedKeep(C) == C

\* what confirm_new_edges returns when the re-execution timed out or failed
ConfirmExecFailed(C) == {}

\* confirm_new_edges after a re-execution that returned a status: the edges it
\* returns and the tracker and virgin bits it leaves. vg has the candidates
\* virgin again; bm is the bitmap the re-execution left.
ConfirmEvaluated(C, bm, vg, bl, sn) ==
    LET ev == Evaluate(bm, vg)
        S == ev.edges
        stable == StableEdges(C, S)
        aux == AuxTracker(C, S)
        bl2 == BumpBlacklist(bl, aux)
        cur == Curated(stable, bl2, sn)
    IN  IF S = {}
        THEN \* edges.edge_indices.is_null()
             [edges |-> {}, second |-> S, virgin |-> ev.virgin,
              blacklist |-> bl, seen |-> sn]
        ELSE IF ~ev.new_cov
        THEN [edges |-> {}, second |-> S,
              virgin |-> ClearEdgeData(ev.virgin, S \ C),
              blacklist |-> bl, seen |-> sn]
        ELSE [edges |-> cur, second |-> S,
              virgin |-> ClearEdgeData(ev.virgin, S \ C),
              blacklist |-> bl2, seen |-> InsertSeen(sn, cur)]

\* ------------------------------------------------------------ job results

JobResult(sc, sg, nc, eh, cr, to) ==
    [status_code |-> sc, signal |-> sg, new_coverage |-> nc, edge_hits |-> eh,
     is_crash |-> cr, is_timeout |-> to]

NoResult == JobResult(0, 0, FALSE, {}, FALSE, FALSE)

\* variant: the timeout result reports coverage
TimeoutResultWithCoverage == JobResult(-1, 0, TRUE, Edges, FALSE, TRUE)

\* the early return of start_internal after a timeout
TimeoutResult == JobResult(-1, 0, FALSE, {}, FALSE, TRUE)

\* variant: an I/O error is classified like a timeout
StatusTupleNoCrash(st) ==
    IF st.kind = "ok" THEN <<ExitCodeOf(st.raw), SignalOf(st.raw), FALSE>>
    ELSE <<-1, 0, FALSE>>

\* (status_code, signal, is_crash) of start_internal
StatusTuple(st) ==
    IF st.kind = "ok" THEN <<ExitCodeOf(st.raw), SignalOf(st.raw), FALSE>>
    ELSE IF st.kind = "timeout" THEN <<-1, 0, FALSE>>
    ELSE <<-1, -1, TRUE>>

\* job_result at the end of start_internal
FinalResult(st, new_cov_flag, edge_hits) ==
    LET t == StatusTuple(st)
        timed_out == IsTimedOut(st)
    IN  JobResult(t[1], t[2],
                  IF timed_out THEN FALSE ELSE new_cov_flag,
                  IF timed_out THEN {} ELSE edge_hits,
                  t[3], timed_out)

\* ------------------------------------------------------------------- pool

\* variant: one permit more than the queues have room for
QueueCapacityOneMore == NumWorkers * Max(QueueSize, 1) + 1

\* queue_capacity of FuzzPool::new
QueueCapacity == NumWorkers * Max(QueueSize, 1)

\* variant: the permit stays with the job
IntoPartsKeep(p) == p

\* Job::into_parts: the permit is dropped
IntoParts(p) == p + 1

Idle == [pc |-> "idle", job |-> NoJob, offset |-> 0]

\* spawn_with_details and the handshake of FuzzWorker::new: a handshaken child
\* with crt_executions 0. completed counts the scripts the current child has
\* run to the end; over and fresh record, for the execute call in flight,
\* whether it found the budget spent and whether it launched a new child.
DrvSpawned ==
    [pc |-> "idle", child |-> "ready", crt_executions |-> 0, completed |-> 0,
     calls |-> 0, over |-> FALSE, fresh |-> FALSE]

\* a file that does not exist, and a file holding blob
NoFile == [exists |-> FALSE, blob |-> <<>>]
FileOf(blob) == [exists |-> TRUE, blob |-> blob]

\* a slot of handles no task has been spawned into
NoTask == [pc |-> "idle", iteration |-> 0, code |-> <<>>, sel |-> 0,
           res |-> NoResult]

\* a task that has returned
DoneTask == [NoTask EXCEPT !.pc = "done"]

\* MutatorStats::default
NoStats == [uses |-> 0, total_reward |-> 0, last_reward |-> 0,
            invalid_count |-> 0, timeout_count |-> 0]

\* ret before any CorpusManager call
NoCall == [op |-> "none", bytes |-> <<>>, edge_hits |-> <<>>, is_timeout |-> FALSE,
           id |-> 0, val |-> "none"]

\* no splice call in flight
SpliceIdle == [pc |-> "idle", host |-> <<>>, donor |-> <<>>, donor_stmts |-> <<>>,
               insert_pos |-> 0, out |-> <<>>]

Init ==
    /\ queues = [w \in Workers |-> <<>>]
    /\ next_worker = 0
    /\ permits = QueueCapacity
    /\ sched = Idle
    /\ njobs = 0
    /\ jst = [j \in JobIds |-> "unbuilt"]
    /\ wpc = [w \in Workers |-> "recv"]
    /\ wjob = [w \in Workers |-> NoJob]
    /\ proc = [w \in Workers |-> "ready"]
    /\ crt = [w \in Workers |-> 0]
    /\ virgin = [w \in Workers |-> Edges]
    /\ exec_status = [w \in Workers |-> NoStatus]
    /\ cand = [w \in Workers |-> {}]
    /\ second = [w \in Workers |-> {}]
    /\ second_status = [w \in Workers |-> NoStatus]
    /\ wres = [w \in Workers |-> NoResult]
    /\ werr = [w \in Workers |-> "none"]
    /\ seen = {}
    /\ blacklist = [e \in Edges |-> 0]
    /\ drv = DrvSpawned
    /\ mgr_up = FALSE
    /\ entries = <<>>
    /\ next_id = 0
    /\ root_files = <<>>
    /\ timeout_files = <<>>
    /\ metadata = NoFile
    /\ metadata_tmp = NoFile
    /\ ret = NoCall
    /\ id_log = <<>>
    /\ ops = 0
    /\ iteration = 0
    /\ total_iterations = 0
    /\ handles = 0
    /\ ingested = 0
    /\ tasks = [t \in 1 .. BatchSize |-> NoTask]
    /\ crash_files = <<>>
    /\ stats = NoStats
    /\ saved_crashes = {}
    /\ spl = SpliceIdle

\* schedule_job up to the construction of the Job: the permit is acquired
ScheduleAcquire ==
    /\ sched.pc = "idle"
    /\ njobs < MaxJobs
    /\ NumWorkers > 0
    /\ permits > 0
    /\ permits' = permits - 1
    /\ njobs' = njobs + 1
    /\ sched' = [pc |-> "probing", job |-> njobs + 1, offset |-> 0]
    /\ jst' = [jst EXCEPT ![njobs + 1] = "held"]
    /\ UNCHANGED <<queues, next_worker, wpc, wjob, proc, crt, covVars,
                   exec_status, confirmVars, wres, werr, trackerVars>>
    /\ UNCHANGED outsidePool

\* variant: the cursor stays on the worker that took the job
AdvanceCursorStay(idx) == idx

\* next_worker after worker idx took the job
AdvanceCursor(idx) == (idx + 1) % NumWorkers

\* one try_send of the dispatch loop of schedule_job (or its yield_now)
ScheduleTrySend ==
    /\ sched.pc = "probing"
    /\ LET idx == (next_worker + sched.offset) % NumWorkers
           j == sched.job
       IN  IF sched.offset >= NumWorkers
           THEN \* all workers were full in this pass: yield_now, next pass
                /\ sched' = [sched EXCEPT !.offset = 0]
                /\ UNCHANGED <<queues, next_worker, permits, jst>>
           ELSE IF wpc[idx] = "exited"
           THEN \* TrySendError::Closed: the job and its permit are dropped
                /\ sched' = Idle
                /\ permits' = permits + 1
                /\ jst' = [jst EXCEPT ![j] = "rejected"]
                /\ UNCHANGED <<queues, next_worker>>
           ELSE IF Len(queues[idx]) < QueueSize
           THEN /\ queues' = [queues EXCEPT ![idx] = Append(@, j)]
                /\ next_worker' = AdvanceCursor(idx)
                /\ sched' = Idle
                /\ jst' = [jst EXCEPT ![j] = "queued"]
                /\ UNCHANGED permits
           ELSE \* TrySendError::Full
                /\ sched' = [sched EXCEPT !.offset = @ + 1]
                /\ UNCHANGED <<queues, next_worker, permits, jst>>
    /\ UNCHANGED <<njobs, wpc, wjob, proc, crt, covVars, exec_status,
                   confirmVars, wres, werr, trackerVars>>
    /\ UNCHANGED outsidePool


\* ----------------------------------------------------------------- worker

\* run(): recv() yields a job; into_parts releases its permit
Dequeue(w) ==
    /\ wpc[w] = "recv"
    /\ queues[w] # <<>>
    /\ LET j == Head(queues[w])
       IN  /\ queues' = [queues EXCEPT ![w] = Tail(@)]
           /\ permits' = IntoParts(permits)
           /\ wjob' = [wjob EXCEPT ![w] = j]
           /\ jst' = [jst EXCEPT ![j] = "running"]
    /\ wpc' = [wpc EXCEPT ![w] = "start"]
    /\ UNCHANGED <<next_worker, sched, njobs, proc, crt, covVars,
                   exec_status, confirmVars, wres, werr, trackerVars>>
    /\ UNCHANGED outsidePool

\* run() returns the error of start_internal: the worker is dropped, and with
\* it its child, its receiver and the jobs still queued in the channel
WorkerExits(w, err) ==
    /\ wpc' = [wpc EXCEPT ![w] = "exited"]
    /\ werr' = [werr EXCEPT ![w] = err]
    /\ proc' = [proc EXCEPT ![w] = "dead"]
    /\ jst' = [j \in JobIds |->
                 IF j = wjob[w] \/ \E i \in 1 .. Len(queues[w]) : queues[w][i] = j
                 THEN "dropped" ELSE jst[j]]
    /\ permits' = permits + Len(queues[w])
    /\ queues' = [queues EXCEPT ![w] = <<>>]
    /\ wjob' = [wjob EXCEPT ![w] = NoJob]
    /\ exec_status' = [exec_status EXCEPT ![w] = NoStatus]
    /\ cand' = [cand EXCEPT ![w] = {}]
    /\ wres' = [wres EXCEPT ![w] = NoResult]

\* start_internal reaches Ok(job_result): the result waits to be sent
ResultReady(w, r) ==
    /\ wpc' = [wpc EXCEPT ![w] = "send"]
    /\ wres' = [wres EXCEPT ![w] = r]
    /\ UNCHANGED <<queues, permits, jst, wjob, werr>>

\* start_internal up to the call of confirm_new_edges, and to its end when
\* there are no candidate edges
Start(w) ==
    /\ wpc[w] = "start"
    /\ \E o \in Execute(proc[w], crt[w]), bm \in SUBSET Edges :
         LET st == [kind |-> o.kind, raw |-> o.raw]
             ev == Evaluate(bm, virgin[w])
         IN  /\ crt' = [crt EXCEPT ![w] = o.crt]
             /\ IF IsTimedOut(st)
                THEN /\ \E rh \in RestartHandshake :
                          IF rh.ok
                          THEN /\ ResultReady(w, TimeoutResult)
                               /\ proc' = [proc EXCEPT ![w] = rh.proc]
                               /\ exec_status' = [exec_status EXCEPT ![w] = st]
                               /\ UNCHANGED cand
                          ELSE WorkerExits(w, rh.err)
                     /\ UNCHANGED virgin
                ELSE IF IsErr(st)
                THEN \* no evaluation; is_crash decides on the restart
                     /\ IF StatusTuple(st)[3]
                        THEN \E rh \in RestartHandshake :
                               IF rh.ok
                               THEN /\ ResultReady(w, FinalResult(st, FALSE, {}))
                                    /\ proc' = [proc EXCEPT ![w] = rh.proc]
                                    /\ exec_status' = [exec_status EXCEPT ![w] = st]
                                    /\ UNCHANGED cand
                               ELSE WorkerExits(w, rh.err)
                        ELSE /\ ResultReady(w, FinalResult(st, FALSE, {}))
                             /\ proc' = [proc EXCEPT ![w] = o.proc]
                             /\ exec_status' = [exec_status EXCEPT ![w] = st]
                             /\ UNCHANGED cand
                     /\ UNCHANGED virgin
                ELSE /\ virgin' = [virgin EXCEPT ![w] = ev.virgin]
                     /\ proc' = [proc EXCEPT ![w] = o.proc]
                     /\ exec_status' = [exec_status EXCEPT ![w] = st]
                     /\ IF ev.new_cov /\ ev.edges # {}
                        THEN /\ wpc' = [wpc EXCEPT ![w] = "confirm"]
                             /\ cand' = [cand EXCEPT ![w] = ev.edges]
                             /\ UNCHANGED <<queues, permits, jst, wjob, werr, wres>>
                        ELSE /\ ResultReady(w, FinalResult(st, ev.new_cov, {}))
                             /\ UNCHANGED cand
    /\ UNCHANGED <<next_worker, sched, njobs, second, second_status,
                   trackerVars>>
    /\ UNCHANGED outsidePool

\* confirm_new_edges and the rest of start_internal
Confirm(w) ==
    /\ wpc[w] = "confirm"
    /\ \E o \in Execute(proc[w], crt[w]), bm \in SUBSET Edges :
         LET st == [kind |-> o.kind, raw |-> o.raw]
             vg == ClearEdgeData(virgin[w], cand[w])
             c == ConfirmEvaluated(cand[w], bm, vg, blacklist, seen)
         IN  /\ crt' = [crt EXCEPT ![w] = o.crt]
             /\ second_status' = [second_status EXCEPT ![w] = st]
             /\ IF IsErr(st)
                THEN \* restart()?; handshake()?; both Ok(empty) and Err
                     \* leave start_internal without new coverage
                     /\ \E rh \in RestartHandshake :
                          proc' = [proc EXCEPT ![w] = rh.proc]
                     /\ virgin' = [virgin EXCEPT ![w] = vg]
                     /\ second' = [second EXCEPT ![w] = {}]
                     /\ UNCHANGED trackerVars
                     /\ LET stable == ConfirmExecFailed(cand[w])
                        IN  ResultReady(w, FinalResult(exec_status[w], stable # {}, stable))
                ELSE /\ proc' = [proc EXCEPT ![w] = o.proc]
                     /\ virgin' = [virgin EXCEPT ![w] = c.virgin]
                     /\ second' = [second EXCEPT ![w] = c.second]
                     /\ blacklist' = c.blacklist
                     /\ seen' = c.seen
                     /\ ResultReady(w, FinalResult(exec_status[w], c.edges # {}, c.edges))
    /\ UNCHANGED <<next_worker, sched, njobs, exec_status, cand>>
    /\ UNCHANGED outsidePool

\* run(): the result wres[w] is sent on the job's result channel
Send(w) ==
    /\ wpc[w] = "send"
    /\ jst' = [jst EXCEPT ![wjob[w]] = "done"]
    /\ wpc' = [wpc EXCEPT ![w] = "recv"]
    /\ wjob' = [wjob EXCEPT ![w] = NoJob]
    /\ wres' = [wres EXCEPT ![w] = NoResult]
    /\ exec_status' = [exec_status EXCEPT ![w] = NoStatus]
    /\ cand' = [cand EXCEPT ![w] = {}]
    /\ second' = [second EXCEPT ![w] = {}]
    /\ second_status' = [second_status EXCEPT ![w] = NoStatus]
    /\ UNCHANGED <<queues, next_worker, permits, sched, njobs, proc, crt,
                   covVars, werr, trackerVars>>
    /\ UNCHANGED outsidePool

Next ==
    \/ ScheduleAcquire
    \/ ScheduleTrySend
    \/ \E w \in Workers : Dequeue(w)
    \/ \E w \in Workers : Start(w)
    \/ \E w \in Workers : Confirm(w)
    \/ \E w \in Workers : Send(w)

Spec == Init /\ [][Next]_vars

TypeOK ==
    /\ permits \in 0 .. QueueCapacity
    /\ next_worker \in Workers
    /\ njobs \in 0 .. MaxJobs
    /\ \A w \in Workers : crt[w] \in 0 .. MaxExecutions


\* ------------------------------------------- FuzzProcess::execute by steps

poolSide == <<queues, next_worker, permits, sched, njobs, jst, wpc, wjob,
              proc, crt, virgin, exec_status, cand, second, second_status,
              wres, werr, seen, blacklist>>

outsideDriver == <<poolSide, corpusVars, loopVars, spl>>

\* variant: execute never looks at the budget
ExecuteEntryNoBudget(c) == "send"

\* if self.crt_executions >= self.max_executions { ... }
ExecuteEntry(c) == IF c >= MaxExecutions THEN "restart" ELSE "send"

\* a caller enters execute
ExecuteCall ==
    /\ drv.pc = "idle"
    /\ drv.calls < MaxCalls
    /\ drv' = [drv EXCEPT !.pc = ExecuteEntry(drv.crt_executions),
                          !.calls = @ + 1,
                          !.over = drv.crt_executions >= MaxExecutions,
                          !.fresh = FALSE]
    /\ UNCHANGED outsideDriver

\* while let Err(e) = self.restart() { sleep }: one turn of the loop
ExecuteRestart ==
    /\ drv.pc = "restart"
    /\ \E r \in Restart :
         drv' = IF r.ok
                THEN [drv EXCEPT !.pc = "handshake", !.child = r.proc,
                                 !.completed = 0, !.fresh = TRUE]
                ELSE [drv EXCEPT !.child = r.proc]
    /\ UNCHANGED outsideDriver

\* self.handshake()?; self.crt_executions = 0;
ExecuteHandshake ==
    /\ drv.pc = "handshake"
    /\ \E h \in Handshake :
         drv' = IF h.ok
                THEN [drv EXCEPT !.pc = "send", !.child = h.proc,
                                 !.crt_executions = 0]
                ELSE [drv EXCEPT !.pc = "failed", !.child = h.proc]
    /\ UNCHANGED outsideDriver

\* the writes of "exec", the length and the script
ExecuteSend ==
    /\ drv.pc = "send"
    /\ \/ /\ drv.child # "dead"
          /\ drv' = [drv EXCEPT !.pc = "read"]
       \/ drv' = [drv EXCEPT !.pc = "failed"]
    /\ UNCHANGED outsideDriver

\* read_status_with_timeout and the count of the execution
ExecuteRead ==
    /\ drv.pc = "read"
    /\ \/ drv' = [drv EXCEPT !.pc = "idle", !.crt_executions = @ + 1,
                             !.completed = @ + 1]
       \/ \* timed out (the child is killed) or the child closed the pipe
          drv' = [drv EXCEPT !.pc = "failed", !.child = "dead"]
       \/ \* another read error: the child may have finished the script
          \E n \in {drv.completed, drv.completed + 1} :
            drv' = [drv EXCEPT !.pc = "failed", !.completed = n]
    /\ UNCHANGED outsideDriver

\* the worker after Err from execute: self.process.restart()?;
\* self.process.handshake()?; start_internal leaves with the error, while
\* confirm_new_edges' caller goes on with the child as it is
CallerRecovers ==
    /\ drv.pc = "failed"
    /\ \E rh \in RestartHandshake :
         LET launched == rh.ok \/ rh.err = "handshake"
             d == [drv EXCEPT !.child = rh.proc,
                              !.completed = IF launched THEN 0 ELSE @]
         IN  \/ drv' = [d EXCEPT !.pc = "idle"]
             \/ /\ ~rh.ok
                /\ drv' = [d EXCEPT !.pc = "exited"]
    /\ UNCHANGED outsideDriver

NextDriver ==
    \/ ExecuteCall
    \/ ExecuteRestart
    \/ ExecuteHandshake
    \/ ExecuteSend
    \/ ExecuteRead
    \/ CallerRecovers

SpecDriver == Init /\ [][NextDriver]_vars


\* ----------------------------------------------------------- CorpusManager

Min(S) == CHOOSE m \in S : \A x \in S : m <= x

\* a set of edge ids as the Vec<u32> the worker reports, in ascending order
RECURSIVE SortedSeq(_)
SortedSeq(S) == IF S = {} THEN <<>> ELSE <<Min(S)>> \o SortedSeq(S \ {Min(S)})

\* edge_hits handed to the corpus manager
EdgeHitVecs == {<<>>, <<1>>}

\* one write of a word into the hasher
Mix(h, x) == (h * 31 + x + 1) % FingerprintSpace

RECURSIVE HashSeq(_, _)
HashSeq(h, q) == IF q = <<>> THEN h ELSE HashSeq(Mix(h, Head(q)), Tail(q))

\* Hash for a slice: the length, then the elements
HashSlice(h, q) == HashSeq(Mix(h, Len(q)), q)

\* variant: only the script bytes are hashed
ComputeFingerprintBytesOnly(script_bytes, edge_hits) == HashSlice(0, script_bytes)

\* compute_fingerprint
ComputeFingerprint(script_bytes, edge_hits) ==
    HashSlice(HashSlice(0, script_bytes), edge_hits)

\* variant: only the newest entry is compared
ContainsFingerprintNewest(es, fingerprint) ==
    es # <<>> /\ es[Len(es)].fingerprint = fingerprint

\* contains_fingerprint
ContainsFingerprint(es, fingerprint) ==
    \E i \in 1 .. Len(es) : es[i].fingerprint = fingerprint

\* a directory with the file name |-> bytes added or replaced
WriteFile(dir, name, bytes) ==
    [n \in DOMAIN dir \cup {name} |-> IF n = name THEN bytes ELSE dir[n]]

\* a directory without the file name
RemoveFile(dir, name) == [n \in DOMAIN dir \ {name} |-> dir[n]]

\* relative_path of add_entry: seed_<id>.js, written as its number
SeedPath(id) == id

\* CorpusEntry; total_reward, exec_time_ms and last_selected_ts, which no
\* operation reads, are left out
NewEntry(id, fingerprint, edge_hits, script_bytes, reward) ==
    [id |-> id, path |-> SeedPath(id), fingerprint |-> fingerprint,
     edge_hits |-> edge_hits, size_bytes |-> Len(script_bytes),
     last_reward |-> reward, num_mutations |-> 0]

\* serde_json::to_vec_pretty of CorpusMetadata: next_id, then one tuple of
\* field values per entry
ToVecPretty(es, nid) ==
    <<nid, [i \in 1 .. Len(es) |->
              <<es[i].id, es[i].path, es[i].fingerprint, es[i].edge_hits,
                es[i].size_bytes, es[i].last_reward, es[i].num_mutations>>]>>

\* serde_json::from_slice::<CorpusMetadata>
FromSlice(blob) ==
    [next_id |-> blob[1],
     entries |-> [i \in 1 .. Len(blob[2]) |->
                    [id |-> blob[2][i][1], path |-> blob[2][i][2],
                     fingerprint |-> blob[2][i][3], edge_hits |-> blob[2][i][4],
                     size_bytes |-> blob[2][i][5], last_reward |-> blob[2][i][6],
                     num_mutations |-> blob[2][i][7]]]]

MaxId(es) == IF es = <<>> THEN 0
             ELSE CHOOSE m \in {es[i].id : i \in 1 .. Len(es)} :
                    \A i \in 1 .. Len(es) : es[i].id <= m

\* (entries, next_id) of load() for the metadata file md
Loaded(md) ==
    IF ~md.exists \/ md.blob = <<>>
    THEN [entries |-> <<>>, next_id |-> 0]
    ELSE LET meta == FromSlice(md.blob)
         IN  [entries |-> meta.entries,
              next_id |-> Max(meta.next_id, MaxId(meta.entries) + 1)]

Mem == [entries |-> entries, next_id |-> next_id]
Disk == [root_files |-> root_files, timeout_files |-> timeout_files,
         metadata |-> metadata, metadata_tmp |-> metadata_tmp]

\* what a call leaves behind: the manager's fields, the files, the value
\* returned ("some", "none", "ok", "err", or "stop" when the process stopped
\* inside the call), and the ids it put into file names
Outcome(m, d, val, ids) == [mem |-> m, disk |-> d, val |-> val, ids |-> ids]

\* what fs::write leaves in a file when it does not finish: the document cut
\* short after its first field
Truncated(blob) == SubSeq(blob, 1, 1)

\* a document serde_json::from_slice::<CorpusMetadata> accepts
Complete(blob) == Len(blob) = 2

\* variant: the document is written over metadata.json itself
PersistInPlace(m, d) ==
    LET blob == ToVecPretty(m.entries, m.next_id)
        cut == [d EXCEPT !.metadata = FileOf(Truncated(blob))]
        written == [d EXCEPT !.metadata = FileOf(blob)]
    IN  {Outcome(m, d, "err", <<>>),
         Outcome(m, cut, "err", <<>>),
         Outcome(m, cut, "stop", <<>>),
         Outcome(m, written, "stop", <<>>),
         Outcome(m, written, "ok", <<>>)}

\* persist(): write metadata.json.tmp, rename it to metadata.json
Persist(m, d) ==
    LET blob == ToVecPretty(m.entries, m.next_id)
        cut == [d EXCEPT !.metadata_tmp = FileOf(Truncated(blob))]
        written == [d EXCEPT !.metadata_tmp = FileOf(blob)]
        renamed == [d EXCEPT !.metadata = FileOf(blob), !.metadata_tmp = NoFile]
    IN  {Outcome(m, d, "err", <<>>),       \* the write fails at once
         Outcome(m, cut, "err", <<>>),     \* the write fails part-way
         Outcome(m, cut, "stop", <<>>),    \* the process stops inside the write
         Outcome(m, written, "err", <<>>), \* the rename fails
         Outcome(m, written, "stop", <<>>),
         Outcome(m, renamed, "ok", <<>>)}

\* variant: the id is taken before the fingerprint is looked up
RejectedIdSpent(m, d) ==
    {Outcome([m EXCEPT !.next_id = @ + 1], d, "none", <<>>)}

\* add_entry when the fingerprint is held: return Ok(None)
Rejected(m, d) == {Outcome(m, d, "none", <<>>)}

\* variant: the timed-out script is stored and also pushed as an entry
StoreTimeoutAsSeed(m, d, id, script_bytes) ==
    {Outcome([m EXCEPT !.entries = Append(@, NewEntry(id, 0, <<>>, script_bytes, 0))],
             [d EXCEPT !.timeout_files = WriteFile(@, id, script_bytes)],
             "none", <<id>>)}

\* add_entry with is_timeout: the script goes to timeouts/seed_<id>.js
StoreTimeout(m, d, id, script_bytes) ==
    {Outcome(m, d, "err", <<>>), \* create_dir_all or the write fails
     Outcome(m, [d EXCEPT !.timeout_files = WriteFile(@, id, script_bytes)],
             "none", <<id>>)}

\* add_entry
AddEntry(m, d, script_bytes, edge_hits, reward, is_timeout) ==
    LET fingerprint == ComputeFingerprint(script_bytes, edge_hits)
        id == m.next_id
        m1 == [m EXCEPT !.next_id = id + 1]
    IN  IF ContainsFingerprint(m.entries, fingerprint)
        THEN Rejected(m, d)
        ELSE IF is_timeout
        THEN StoreTimeout(m1, d, id, script_bytes)
        ELSE LET d1 == [d EXCEPT !.root_files =
                                   WriteFile(@, SeedPath(id), script_bytes)]
                 entry == NewEntry(id, fingerprint, edge_hits, script_bytes, reward)
                 m2 == [m1 EXCEPT !.entries = Append(@, entry)]
             IN  {Outcome(m1, d, "err", <<>>), \* the write fails
                  Outcome(m1, d1, "stop", <<id>>)}
                 \cup {Outcome(o.mem, o.disk,
                               IF o.val = "ok" THEN "some" ELSE o.val, <<id>>) :
                         o \in Persist(m2, d1)}

\* the entries without the one at position pos
RemoveAt(es, pos) ==
    [i \in 1 .. (Len(es) - 1) |-> IF i < pos THEN es[i] ELSE es[i + 1]]

\* remove_entry
RemoveEntry(m, d, id) ==
    IF \A i \in 1 .. Len(m.entries) : m.entries[i].id # id
    THEN {Outcome(m, d, "ok", <<>>)}
    ELSE LET pos == Min({i \in 1 .. Len(m.entries) : m.entries[i].id = id})
             entry == m.entries[pos]
             m1 == [m EXCEPT !.entries = RemoveAt(@, pos)]
             d1 == [d EXCEPT !.root_files = RemoveFile(@, entry.path)]
         IN  IF entry.path \in DOMAIN d.root_files
             THEN {Outcome(m1, d, "err", <<>>), \* remove_file fails
                   Outcome(m1, d1, "stop", <<>>)}
                  \cup Persist(m1, d1)
             ELSE Persist(m1, d)

\* record_result
RecordResult(m, d, id, reward) ==
    IF \A i \in 1 .. Len(m.entries) : m.entries[i].id # id
    THEN {Outcome(m, d, "ok", <<>>)}
    ELSE LET pos == Min({i \in 1 .. Len(m.entries) : m.entries[i].id = id})
             m1 == [m EXCEPT !.entries[pos].last_reward = reward]
         IN  Persist(m1, d)

\* pick_random with the index idx drawn: the entry's num_mutations grows
PickRandom(m, idx) ==
    [m EXCEPT !.entries[idx].num_mutations = @ + 1]

\* the call just made, for ret
Call(op, bytes, edge_hits, is_timeout, id, val) ==
    [op |-> op, bytes |-> bytes, edge_hits |-> edge_hits,
     is_timeout |-> is_timeout, id |-> id, val |-> val]

\* the state after a call with outcome o
Apply(o, call) ==
    /\ mgr_up' = (o.val # "stop")
    /\ entries' = IF o.val = "stop" THEN <<>> ELSE o.mem.entries
    /\ next_id' = IF o.val = "stop" THEN 0 ELSE o.mem.next_id
    /\ root_files' = o.disk.root_files
    /\ timeout_files' = o.disk.timeout_files
    /\ metadata' = o.disk.metadata
    /\ metadata_tmp' = o.disk.metadata_tmp
    /\ ret' = call
    /\ id_log' = id_log \o o.ids
    /\ ops' = ops + 1

outsideCorpus == <<poolSide, drv, loopVars, spl>>

\* CorpusManager::load on the directory as the last run left it
Load ==
    /\ ~mgr_up
    /\ mgr_up' = TRUE
    /\ entries' = Loaded(metadata).entries
    /\ next_id' = Loaded(metadata).next_id
    /\ ret' = Call("load", <<>>, <<>>, FALSE, 0, "ok")
    /\ UNCHANGED <<diskVars, id_log, ops, outsideCorpus>>

\* the process stops between two calls
Stop ==
    /\ mgr_up
    /\ mgr_up' = FALSE
    /\ entries' = <<>>
    /\ next_id' = 0
    /\ ret' = NoCall
    /\ UNCHANGED <<diskVars, id_log, ops, outsideCorpus>>

CallAddEntry ==
    /\ mgr_up /\ ops < MaxOps
    /\ \E b \in Scripts, eh \in EdgeHitVecs, r \in Rewards, to \in BOOLEAN :
         \E o \in AddEntry(Mem, Disk, b, eh, r, to) :
           Apply(o, Call("add_entry", b, eh, to, 0, o.val))
    /\ UNCHANGED outsideCorpus

CallRemoveEntry ==
    /\ mgr_up /\ ops < MaxOps
    /\ \E id \in Ids : \E o \in RemoveEntry(Mem, Disk, id) :
         Apply(o, Call("remove_entry", <<>>, <<>>, FALSE, id, o.val))
    /\ UNCHANGED outsideCorpus

CallRecordResult ==
    /\ mgr_up /\ ops < MaxOps
    /\ \E id \in Ids, r \in Rewards : \E o \in RecordResult(Mem, Disk, id, r) :
         Apply(o, Call("record_result", <<>>, <<>>, FALSE, id, o.val))
    /\ UNCHANGED outsideCorpus

CallPickRandom ==
    /\ mgr_up /\ ops < MaxOps
    /\ IF entries = <<>>
       THEN Apply(Outcome(Mem, Disk, "none", <<>>),
                  Call("pick_random", <<>>, <<>>, FALSE, 0, "none"))
       ELSE \E idx \in 1 .. Len(entries) :
              Apply(Outcome(PickRandom(Mem, idx), Disk, "some", <<>>),
                    Call("pick_random", <<>>, <<>>, FALSE, entries[idx].id, "some"))
    /\ UNCHANGED outsideCorpus

NextCorpus ==
    \/ Load
    \/ Stop
    \/ CallAddEntry
    \/ CallRemoveEntry
    \/ CallRecordResult
    \/ CallPickRandom

SpecCorpus == Init /\ [][NextCorpus]_vars

\* ---------------------------------------------------------------- fuzz loop

outsideLoop == <<poolSide, drv, spl>>

\* the exec_status values behind the results a worker sends
LoopStatuses ==
    {[kind |-> "ok", raw |-> raw] : raw \in RawStatuses}
    \cup {[kind |-> "eof", raw |-> 0]}

\* the JobResults a result task may receive
LoopResults ==
    {TimeoutResult}
    \cup {FinalResult(st, FALSE, {}) : st \in LoopStatuses}
    \cup {FinalResult(st, TRUE, {1}) : st \in {x \in LoopStatuses : x.kind = "ok"}}

\* compute_reward
ComputeReward(result) ==
    IF result.is_crash THEN 5
    ELSE IF result.new_coverage THEN 1
    ELSE IF result.is_timeout THEN -1
    ELSE 0

\* ManagedMutator::mutate / splice: uses += 1
CountUse(st) == [st EXCEPT !.uses = @ + 1]

\* record_reward; mean_reward, the quotient of total_reward and uses, is left
\* out
RecordReward(st, reward) ==
    [st EXCEPT !.uses = @ + 1, !.total_reward = @ + reward,
               !.last_reward = reward]

\* variant: a timeout is counted as invalid only
RecordInvalidOnly(st, is_timeout) == [st EXCEPT !.invalid_count = @ + 1]

\* record_invalid, and record_timeout for a timeout
RecordInvalid(st, is_timeout) ==
    [st EXCEPT !.invalid_count = @ + 1,
               !.timeout_count = IF is_timeout THEN @ + 1 ELSE @]

\* output_crash_path: crashes/crash_<iteration>.js, written as its number
OutputCrashPath(iter) == iter

\* variant: the exit code is not looked at
AcceptsResultAnyExit(result) ==
    result.new_coverage /\ ~result.is_timeout

\* the condition under which the result task calls add_entry for a new seed
AcceptsResult(result) ==
    result.new_coverage /\ result.status_code = 0 /\ ~result.is_timeout

\* the outcomes of a call in which the process keeps running
Running(S) == {o \in S : o.val # "stop"}

\* the manager and the files after a call with outcome o
SetCorpus(o, call) ==
    /\ entries' = o.mem.entries
    /\ next_id' = o.mem.next_id
    /\ root_files' = o.disk.root_files
    /\ timeout_files' = o.disk.timeout_files
    /\ metadata' = o.disk.metadata
    /\ metadata_tmp' = o.disk.metadata_tmp
    /\ ret' = call
    /\ id_log' = id_log \o o.ids
    /\ UNCHANGED <<mgr_up, ops>>

\* one task of ingest_initial_corpus: the file is executed and handed to
\* add_entry whatever the result
IngestFile ==
    /\ mgr_up
    /\ total_iterations = 0
    /\ ingested < MaxIngest
    /\ ingested' = ingested + 1
    /\ \E b \in Scripts, r \in LoopResults :
         \E o \in Running(AddEntry(Mem, Disk, b, SortedSeq(r.edge_hits),
                                   ComputeReward(r), r.is_timeout)) :
           SetCorpus(o, Call("add_entry", b, SortedSeq(r.edge_hits),
                             r.is_timeout, 0, o.val))
    /\ UNCHANGED <<iteration, total_iterations, handles, tasks, crash_files,
                   stats, saved_crashes, outsideLoop>>

\* one pass through the body of run_fuzz_loop, up to the continue or to the
\* push of the spawned task's handle
Iterate ==
    /\ mgr_up
    /\ handles < BatchSize
    /\ total_iterations < MaxIterations
    /\ iteration' = iteration + 1
    /\ total_iterations' = total_iterations + 1
    /\ IF entries = <<>>
       THEN \* pick_random returns None
            UNCHANGED <<corpusVars, handles, tasks, stats>>
       ELSE \E idx \in 1 .. Len(entries) :
              LET picked == Outcome(PickRandom(Mem, idx), Disk, "some", <<>>)
                  sel == entries[idx]
                  call == Call("pick_random", <<>>, <<>>, FALSE, sel.id, "some")
              IN  IF sel.path \notin DOMAIN root_files
                  THEN \* the seed cannot be read
                       /\ SetCorpus(picked, call)
                       /\ UNCHANGED <<handles, tasks, stats>>
                  ELSE \/ \* parse_js fails on the seed: remove_entry
                          /\ \E o \in Running(RemoveEntry(picked.mem, Disk, sel.id)) :
                               SetCorpus(o, Call("remove_entry", <<>>, <<>>, FALSE,
                                                 sel.id, o.val))
                          /\ UNCHANGED <<handles, tasks, stats>>
                       \/ \* generate_js or schedule_job fails
                          /\ SetCorpus(picked, call)
                          /\ stats' = CountUse(stats)
                          /\ UNCHANGED <<handles, tasks>>
                       \/ \* the job is scheduled and its result task spawned
                          /\ SetCorpus(picked, call)
                          /\ stats' = CountUse(stats)
                          /\ handles' = handles + 1
                          /\ \E code \in Scripts :
                               tasks' = [tasks EXCEPT ![handles + 1] =
                                           [pc |-> "recv", iteration |-> iteration + 1,
                                            code |-> code, sel |-> sel.id,
                                            res |-> NoResult]]
    /\ UNCHANGED <<ingested, crash_files, saved_crashes, outsideLoop>>

\* the result task from recv() to the first lock of the corpus manager
TaskRecv(t) ==
    /\ tasks[t].pc = "recv"
    /\ \/ \E r \in LoopResults :
            /\ tasks' = [tasks EXCEPT ![t].pc = "bookkeep", ![t].res = r]
            /\ stats' = LET s1 == RecordReward(stats, ComputeReward(r))
                        IN  IF r.is_timeout \/ r.status_code # 0
                            THEN RecordInvalid(s1, r.is_timeout)
                            ELSE s1
       \/ \* Some(Err) or None
          /\ tasks' = [tasks EXCEPT ![t] = DoneTask]
          /\ UNCHANGED stats
    /\ UNCHANGED <<corpusVars, iteration, total_iterations, handles, ingested,
                   crash_files, saved_crashes, outsideLoop>>

\* the result task under the first lock: record_result, and add_entry for a
\* timeout
TaskBookkeep(t) ==
    /\ tasks[t].pc = "bookkeep"
    /\ LET T == tasks[t]
           reward == ComputeReward(T.res)
       IN  /\ \E o1 \in Running(RecordResult(Mem, Disk, T.sel, reward)) :
                IF T.res.is_timeout
                THEN \E o2 \in Running(AddEntry(o1.mem, o1.disk, T.code, <<>>, 0, TRUE)) :
                       SetCorpus(o2, Call("add_entry", T.code, <<>>, TRUE, 0, o2.val))
                ELSE SetCorpus(o1, Call("record_result", <<>>, <<>>, FALSE,
                                        T.sel, o1.val))
           /\ tasks' = [tasks EXCEPT ![t] =
                          IF T.res.is_crash THEN [T EXCEPT !.pc = "crash"]
                          ELSE IF AcceptsResult(T.res) THEN [T EXCEPT !.pc = "add"]
                          ELSE DoneTask]
    /\ UNCHANGED <<iteration, total_iterations, handles, ingested, crash_files,
                   stats, saved_crashes, outsideLoop>>

\* the crash branch: persist_crash, whose error is only printed
TaskCrash(t) ==
    /\ tasks[t].pc = "crash"
    /\ \/ /\ crash_files' = WriteFile(crash_files,
                                      OutputCrashPath(tasks[t].iteration),
                                      tasks[t].code)
          /\ saved_crashes' = saved_crashes \cup {tasks[t].code}
       \/ UNCHANGED <<crash_files, saved_crashes>>
    /\ tasks' = [tasks EXCEPT ![t] = DoneTask]
    /\ UNCHANGED <<corpusVars, iteration, total_iterations, handles, ingested,
                   stats, outsideLoop>>

\* the result task under its last lock: add_entry for the new seed
TaskAdd(t) ==
    /\ tasks[t].pc = "add"
    /\ LET T == tasks[t]
           reward == Max(ComputeReward(T.res), 0)
           edge_hits == SortedSeq(T.res.edge_hits)
       IN  \E o \in Running(AddEntry(Mem, Disk, T.code, edge_hits, reward,
                                     T.res.is_timeout)) :
             SetCorpus(o, Call("add_entry", T.code, edge_hits, T.res.is_timeout,
                               0, o.val))
    /\ tasks' = [tasks EXCEPT ![t] = DoneTask]
    /\ UNCHANGED <<iteration, total_iterations, handles, ingested, crash_files,
                   stats, saved_crashes, outsideLoop>>

\* handles.len() >= 10000: every task is awaited, then iteration = 0
BatchReset ==
    /\ handles >= BatchSize
    /\ \A t \in 1 .. BatchSize : tasks[t].pc = "done"
    /\ handles' = 0
    /\ iteration' = 0
    /\ tasks' = [t \in 1 .. BatchSize |-> NoTask]
    /\ UNCHANGED <<corpusVars, total_iterations, ingested, crash_files, stats,
                   saved_crashes, outsideLoop>>

NextLoop ==
    \/ Load
    \/ IngestFile
    \/ Iterate
    \/ \E t \in 1 .. BatchSize : TaskRecv(t)
    \/ \E t \in 1 .. BatchSize : TaskBookkeep(t)
    \/ \E t \in 1 .. BatchSize : TaskCrash(t)
    \/ \E t \in 1 .. BatchSize : TaskAdd(t)
    \/ BatchReset

SpecLoop == Init /\ [][NextLoop]_vars

\* ------------------------------------------------------------ SpliceMutator

outsideSplice == <<poolSide, drv, corpusVars, loopVars>>

\* statements of a Script, kept to what the visitors of splice.rs and scope.rs
\* look at: the identifier a statement declares or refers to, and the
\* statements inside it. kids is a Vec<Stmt> for a function body and a block;
\* an if statement holds its consequent as one boxed Stmt, in no Vec.
IdentStmt(n) == [kind |-> "ident", name |-> n, kids |-> <<>>]
CallStmt(n) == [kind |-> "call", name |-> n, kids |-> <<>>]
LetDecl(n) == [kind |-> "let", name |-> n, kids |-> <<>>]
FnDecl(n, body) == [kind |-> "fn", name |-> n, kids |-> body]
BlockStmt(body) == [kind |-> "block", name |-> "", kids |-> body]
IfStmt(cons) == [kind |-> "if", name |-> "", kids |-> <<cons>>]

\* the hosts splice is called with
HostScripts ==
    {<<>>,
     <<LetDecl("v0"), IdentStmt("v0")>>,
     <<LetDecl("f0")>>,
     <<FnDecl("v0", <<IdentStmt("a")>>)>>,
     <<IfStmt(IdentStmt("a")), IdentStmt("b")>>,
     <<BlockStmt(<<IdentStmt("a")>>), IdentStmt("b")>>}

\* the donors splice is called with
DonorScripts ==
    {<<>>,
     <<LetDecl("x"), IdentStmt("x")>>,
     <<LetDecl("x"), LetDecl("y")>>,
     <<FnDecl("g", <<LetDecl("x")>>), CallStmt("g")>>}

\* StmtCollector: every statement, before the statements inside it
RECURSIVE CollectStmts(_)
CollectStmts(list) ==
    IF list = <<>> THEN <<>>
    ELSE <<Head(list)>> \o CollectStmts(Head(list).kids) \o CollectStmts(Tail(list))

\* get_random_stmt_range: the slices stmts[start..end] it can return
StmtRanges(stmts) ==
    {SubSeq(stmts, r[1] + 1, r[2]) :
       r \in {q \in (0 .. (Len(stmts) - 1)) \X (1 .. Len(stmts)) : q[2] >= q[1] + 1}}

\* Vec::insert(pos, s)
VecInsert(list, pos, s) ==
    SubSeq(list, 1, pos) \o <<s>> \o SubSeq(list, pos + 1, Len(list))

\* for (offset, stmt) in to_insert: stmts.insert(i + offset, stmt)
RECURSIVE InsertBefore(_, _, _)
InsertBefore(stmts, i, to_insert) ==
    IF to_insert = <<>> THEN stmts
    ELSE InsertBefore(VecInsert(stmts, i, Head(to_insert)), i + 1, Tail(to_insert))

\* for stmt in to_insert: stmts.insert(pos, stmt)
RECURSIVE InsertAtEnd(_, _, _)
InsertAtEnd(stmts, pos, to_insert) ==
    IF to_insert = <<>> THEN stmts
    ELSE InsertAtEnd(VecInsert(stmts, pos, Head(to_insert)), pos, Tail(to_insert))

\* InsertStmtMutator::new
NewInserter == [current_idx |-> 0, inserted |-> FALSE]

\* try_insert_into_vec from index i on, and the visit of one statement, for
\* the inserter m; both return the rewritten node and the inserter
RECURSIVE TryInsertIntoVec(_, _, _, _, _)
RECURSIVE VisitMutStmt(_, _, _, _)
TryInsertIntoVec(stmts, i, m, to_insert, insert_pos) ==
    IF i < Len(stmts)
    THEN IF ~m.inserted /\ m.current_idx = insert_pos
         THEN TryInsertIntoVec(InsertBefore(stmts, i, to_insert), i + Len(to_insert),
                               [m EXCEPT !.inserted = TRUE], to_insert, insert_pos)
         ELSE LET v == VisitMutStmt(stmts[i + 1], m, to_insert, insert_pos)
                  m2 == IF ~v.m.inserted
                        THEN [v.m EXCEPT !.current_idx = @ + 1] ELSE v.m
              IN  TryInsertIntoVec([stmts EXCEPT ![i + 1] = v.node], i + 1, m2,
                                   to_insert, insert_pos)
    ELSE IF ~m.inserted /\ m.current_idx = insert_pos
         THEN [node |-> InsertAtEnd(stmts, Len(stmts), to_insert),
               m |-> [m EXCEPT !.inserted = TRUE]]
         ELSE [node |-> stmts, m |-> m]

VisitMutStmt(s, m, to_insert, insert_pos) ==
    IF s.kind \in {"fn", "block"}
    THEN \* visit_mut_block_stmt
         LET r == TryInsertIntoVec(s.kids, 0, m, to_insert, insert_pos)
         IN  [node |-> [s EXCEPT !.kids = r.node], m |-> r.m]
    ELSE IF s.kind = "if"
    THEN LET r == VisitMutStmt(s.kids[1], m, to_insert, insert_pos)
         IN  [node |-> [s EXCEPT !.kids = <<r.node>>], m |-> r.m]
    ELSE [node |-> s, m |-> m]

\* visit_mut_script of the inserter on a clone of the host
VisitMutScript(host, to_insert, insert_pos) ==
    TryInsertIntoVec(host, 0, NewInserter, to_insert, insert_pos).node

\* NameCollector::visit_ident over the script: var_names. The name of a
\* function declaration is not visited.
RECURSIVE VarNames(_)
VarNames(list) ==
    IF list = <<>> THEN {}
    ELSE LET s == Head(list)
         IN  (IF s.kind \in {"ident", "call", "let"} THEN {s.name} ELSE {})
             \cup VarNames(s.kids) \cup VarNames(Tail(list))

\* NameCollector::visit_fn_decl over the script: func_names
RECURSIVE FuncNames(_)
FuncNames(list) ==
    IF list = <<>> THEN {}
    ELSE LET s == Head(list)
         IN  (IF s.kind = "fn" THEN {s.name} ELSE {})
             \cup FuncNames(s.kids) \cup FuncNames(Tail(list))

\* format!("{}", n) for an unsigned number
Digits == <<"0", "1", "2", "3", "4", "5", "6", "7", "8", "9">>
RECURSIVE Decimal(_)
Decimal(n) ==
    IF n < 10 THEN Digits[n + 1] ELSE Decimal(n \div 10) \o Digits[(n % 10) + 1]

\* next_var_name: the name returned and var_count afterwards
RECURSIVE NextVarName(_, _)
NextVarName(var_count, collected_names) ==
    LET name == "v" \o Decimal(var_count)
    IN  IF name \notin collected_names
        THEN [name |-> name, count |-> var_count + 1]
        ELSE NextVarName(var_count + 1, collected_names)

\* next_func_name: the name returned and func_count afterwards
RECURSIVE NextFuncName(_, _)
NextFuncName(func_count, collected_names) ==
    LET name == "f" \o Decimal(func_count)
    IN  IF name \notin collected_names
        THEN [name |-> name, count |-> func_count + 1]
        ELSE NextFuncName(func_count + 1, collected_names)

\* HashMap::new and HashMap::insert
EmptyMap == [n \in {} |-> ""]
MapInsert(map, k, v) == [n \in DOMAIN map \cup {k} |-> IF n = k THEN v ELSE map[n]]

\* Option::None of a name
NoName == ""

\* lookup_name: the innermost scope that maps orig
RECURSIVE LookupName(_, _)
LookupName(scope_stack, orig) ==
    IF scope_stack = <<>> THEN NoName
    ELSE LET scope == scope_stack[Len(scope_stack)]
         IN  IF orig \in DOMAIN scope THEN scope[orig]
             ELSE LookupName(SubSeq(scope_stack, 1, Len(scope_stack) - 1), orig)

\* VarRenamer::new
NewVarRenamer == [var_count |-> 0, scope_stack |-> <<EmptyMap>>]

\* resolve_new_name: the name and the renamer afterwards
ResolveNewName(r, orig, collected_names) ==
    LET existing == LookupName(r.scope_stack, orig)
        nx == NextVarName(r.var_count, collected_names)
    IN  IF existing # NoName
        THEN [name |-> existing, r |-> r]
        ELSE [name |-> nx.name,
              r |-> [var_count |-> nx.count,
                     scope_stack |-> [r.scope_stack EXCEPT ![Len(r.scope_stack)] =
                                        MapInsert(@, orig, nx.name)]]]

\* visit_mut_ident of VarRenamer
VarRenamedIdent(r, name) ==
    IF LookupName(r.scope_stack, name) # NoName
    THEN LookupName(r.scope_stack, name) ELSE name

\* VarRenamer over one statement and over a list of statements
RECURSIVE VarRenameStmt(_, _, _)
RECURSIVE VarRenameStmts(_, _, _)
VarRenameStmt(s, r, collected_names) ==
    IF s.kind = "let"
    THEN \* visit_mut_binding_ident
         LET n == ResolveNewName(r, s.name, collected_names)
         IN  [node |-> [s EXCEPT !.name = n.name], r |-> n.r]
    ELSE IF s.kind \in {"ident", "call"}
    THEN [node |-> [s EXCEPT !.name = VarRenamedIdent(r, s.name)], r |-> r]
    ELSE IF s.kind = "fn"
    THEN \* the name is a plain Ident; visit_mut_function scopes the body
         LET pushed == [r EXCEPT !.scope_stack = Append(@, EmptyMap)]
             b == VarRenameStmts(s.kids, pushed, collected_names)
         IN  [node |-> [s EXCEPT !.name = VarRenamedIdent(r, s.name),
                                 !.kids = b.node],
              r |-> [b.r EXCEPT !.scope_stack = SubSeq(@, 1, Len(@) - 1)]]
    ELSE LET b == VarRenameStmts(s.kids, r, collected_names)
         IN  [node |-> [s EXCEPT !.kids = b.node], r |-> b.r]

VarRenameStmts(list, r, collected_names) ==
    IF list = <<>> THEN [node |-> <<>>, r |-> r]
    ELSE LET h == VarRenameStmt(Head(list), r, collected_names)
             t == VarRenameStmts(Tail(list), h.r, collected_names)
         IN  [node |-> <<h.node>> \o t.node, r |-> t.r]

\* FuncRenamer::new
NewFuncRenamer == [func_count |-> 0, func_rename_map |-> EmptyMap]

\* FuncRenamer over one statement and over a list of statements
RECURSIVE FuncRenameStmt(_, _, _)
RECURSIVE FuncRenameStmts(_, _, _)
FuncRenameStmt(s, r, collected_names) ==
    IF s.kind = "fn"
    THEN \* visit_mut_fn_decl
         LET nx == NextFuncName(r.func_count, collected_names)
             known == s.name \in DOMAIN r.func_rename_map
             new_name == IF known THEN r.func_rename_map[s.name] ELSE nx.name
             r1 == IF known THEN r
                   ELSE [func_count |-> nx.count,
                         func_rename_map |-> MapInsert(r.func_rename_map, s.name, nx.name)]
             b == FuncRenameStmts(s.kids, r1, collected_names)
         IN  [node |-> [s EXCEPT !.name = new_name, !.kids = b.node], r |-> b.r]
    ELSE IF s.kind = "call"
    THEN \* visit_mut_call_expr
         [node |-> IF s.name \in DOMAIN r.func_rename_map
                   THEN [s EXCEPT !.name = r.func_rename_map[s.name]] ELSE s,
          r |-> r]
    ELSE LET b == FuncRenameStmts(s.kids, r, collected_names)
         IN  [node |-> [s EXCEPT !.kids = b.node], r |-> b.r]

FuncRenameStmts(list, r, collected_names) ==
    IF list = <<>> THEN [node |-> <<>>, r |-> r]
    ELSE LET h == FuncRenameStmt(Head(list), r, collected_names)
             t == FuncRenameStmts(Tail(list), h.r, collected_names)
         IN  [node |-> <<h.node>> \o t.node, r |-> t.r]

\* the donor after VarRenamer and FuncRenamer, each built from the names the
\* NameCollector found in the host
RenamedDonor(host, donor) ==
    LET vars_done == VarRenameStmts(donor, NewVarRenamer, VarNames(host)).node
    IN  FuncRenameStmts(vars_done, NewFuncRenamer, FuncNames(host)).node

\* splice: the renaming of a clone of the donor
SpliceRename ==
    /\ spl.pc = "idle"
    /\ \E host \in HostScripts, donor \in DonorScripts :
         spl' = [SpliceIdle EXCEPT !.pc = "renamed", !.host = host,
                                   !.donor = RenamedDonor(host, donor)]
    /\ UNCHANGED outsideSplice

\* splice: the statement range of the donor and the insertion index are drawn;
\* a donor without statements returns the host
SpliceChoose ==
    /\ spl.pc = "renamed"
    /\ IF CollectStmts(spl.donor) = <<>>
       THEN spl' = [spl EXCEPT !.pc = "done", !.out = spl.host]
       ELSE \E donor_stmts \in StmtRanges(CollectStmts(spl.donor)),
               insert_pos \in 0 .. Len(CollectStmts(spl.host)) :
              spl' = [spl EXCEPT !.pc = "chosen", !.donor_stmts = donor_stmts,
                                 !.insert_pos = insert_pos]
    /\ UNCHANGED outsideSplice

\* splice: the inserter runs over a clone of the host
SpliceInsert ==
    /\ spl.pc = "chosen"
    /\ spl' = [spl EXCEPT !.pc = "done",
                          !.out = VisitMutScript(spl.host, spl.donor_stmts,
                                                 spl.insert_pos)]
    /\ UNCHANGED outsideSplice

\* splice returns Ok(new_ast)
SpliceReturn ==
    /\ spl.pc = "done"
    /\ spl' = SpliceIdle
    /\ UNCHANGED outsideSplice

NextSplice ==
    \/ SpliceRename
    \/ SpliceChoose
    \/ SpliceInsert
    \/ SpliceReturn

SpecSplice == Init /\ [][NextSplice]_vars

\* ================================================================== claims

\* the worker w takes the step from the stability re-check to the finished result
ConfirmStep(w) == wpc[w] = "confirm" /\ wpc'[w] = "send"

\* the worker w sends its result
SendStep(w) == wpc[w] = "send" /\ wpc'[w] = "recv"

Blacklisted(e) == blacklist[e] >= MaxResets

\* C1: every edge that enters the shared seen set was reported by the first
\* execution (the candidates C) and by the re-execution (S) of the job whose
\* worker inserts it.
C1_SeenAdditionsStable ==
    [][\A e \in seen' \ seen :
         \E w \in Workers : ConfirmStep(w) /\ e \in cand[w] /\ e \in second'[w]]_vars

\* C1 witness: a worker has confirmed stable edges out of candidates of which
\* some did not show up again, while another worker is inside its own re-check.
C1_Witness ==
    \E w, v \in Workers :
        /\ w # v
        /\ wpc[w] = "send" /\ wres[w].edge_hits # {}
        /\ wres[w].edge_hits \subseteq seen
        /\ cand[w] \ second[w] # {}
        /\ wpc[v] = "confirm"

\* C2 as stated: once the instability count of e has reached max_resets, no
\* result sent afterwards lists e, e does not enter seen, and no result has
\* new_coverage on the strength of blacklisted edges alone.
C2_Original ==
    [][/\ \A w \in Workers : SendStep(w) =>
             /\ \A e \in wres[w].edge_hits : ~Blacklisted(e)
             /\ wres[w].new_coverage => \E e \in wres[w].edge_hits : ~Blacklisted(e)
       /\ \A e \in seen' \ seen : ~Blacklisted(e)]_vars

\* C2 as amended: the instability count never drops below the threshold again,
\* and no tracker update made after the threshold was reached adds e to seen
\* or returns e; a result with new_coverage lists at least one edge, and all
\* the edges it lists were below the threshold at its own tracker update.
C2_BlacklistFiltersAtUpdate ==
    [][/\ \A e \in Edges : Blacklisted(e) =>
             /\ blacklist'[e] >= MaxResets
             /\ e \in seen' => e \in seen
       /\ \A w \in Workers : ConfirmStep(w) =>
             /\ \A e \in wres'[w].edge_hits :
                    ~Blacklisted(e) /\ blacklist'[e] < MaxResets
             /\ wres'[w].new_coverage => wres'[w].edge_hits # {}]_vars

\* C2 witness: an edge that both runs of a job reported is left out of the
\* result and of seen because it is blacklisted.
C2_Witness ==
    \E w \in Workers, e \in Edges :
        /\ wpc[w] = "send"
        /\ e \in cand[w] /\ e \in second[w]
        /\ Blacklisted(e)
        /\ e \notin seen
        /\ e \notin wres[w].edge_hits

\* C3 as stated: after a re-check whose second run returned a status, every
\* edge in the symmetric difference of C and S has its instability count
\* incremented by one.
C3_SymDiffIncremented ==
    [][\A w \in Workers :
         (ConfirmStep(w) /\ second_status'[w].kind = "ok") =>
            \A e \in (cand[w] \ second'[w]) \cup (second'[w] \ cand[w]) :
                blacklist'[e] = blacklist[e] + 1]_vars

\* C4: when the re-execution times out or fails, the job leaves seen as it
\* was and its result has no new coverage and no edges.
C4_FailedRecheckDiscards ==
    [][\A w \in Workers :
         (wpc[w] = "confirm" /\ wpc'[w] # "confirm" /\ IsErr(second_status'[w])) =>
            /\ seen' = seen
            /\ wpc'[w] = "send"
            /\ ~wres'[w].new_coverage
            /\ wres'[w].edge_hits = {}]_vars

\* C4 witness: one worker's re-check timed out and another's failed with an
\* I/O error, both with candidate edges in hand.
C4_Witness ==
    \E w, v \in Workers :
        /\ wpc[w] = "send" /\ second_status[w].kind = "timeout" /\ cand[w] # {}
        /\ wpc[v] = "send" /\ second_status[v].kind \in {"eof", "ioerr"} /\ cand[v] # {}

\* the jobs that were built and are neither dequeued nor dropped
Undequeued == {j \in JobIds : jst[j] \in {"held", "queued"}}

\* C5: at most N*Q jobs are built and not yet dequeued, no queue holds more
\* than Q jobs, and the permits in use are exactly those of the jobs not yet
\* dequeued: a job a worker has taken, executed or not, holds none.
C5_AdmissionBound ==
    /\ Cardinality(Undequeued) <= NumWorkers * QueueSize
    /\ \A w \in Workers : Len(queues[w]) <= QueueSize
    /\ permits = NumWorkers * Max(QueueSize, 1) - Cardinality(Undequeued)

\* C5 witness: a worker has dequeued a job and not yet executed it, and every
\* permit is in use again.
C5_Witness ==
    /\ permits = 0
    /\ \E w \in Workers : wpc[w] = "start"
    /\ \E v \in Workers : Len(queues[v]) = QueueSize
    /\ sched.pc = "probing"

\* C6 as stated (its safety part): a job for which schedule_job returned a
\* receiver is on its way to a worker, being executed, or has its result; its
\* result sender is never dropped without a result.
C6_NoJobDropped ==
    \A j \in JobIds : jst[j] \in {"unbuilt", "held", "rejected", "queued", "running", "done"}

\* C7 as stated: a handshake error does not take the worker out of service.
C7_WorkerSurvivesHandshakeError ==
    \A w \in Workers : werr[w] = "handshake" => wpc[w] # "exited"

C9_SignalIsCrash ==
    \A w \in Workers :
        (/\ wpc[w] = "send"
         /\ \/ exec_status[w].kind = "eof"
            \/ exec_status[w].kind = "ok" /\ SignalOf(exec_status[w].raw) # 0) =>
           /\ wres[w].is_crash
           /\ wres[w].status_code = -1
           /\ wres[w].signal = -1

\* C10: a result with is_timeout has no edges, no new coverage and is no crash.
C10_TimeoutResultEmpty ==
    \A w \in Workers :
        (wpc[w] = "send" /\ wres[w].is_timeout) =>
           /\ wres[w].edge_hits = {}
           /\ ~wres[w].new_coverage
           /\ ~wres[w].is_crash

\* C10 witness: a timeout result is ready on a worker whose earlier job had
\* found coverage.
C10_Witness ==
    \E w \in Workers :
        /\ wpc[w] = "send" /\ wres[w].is_timeout
        /\ exec_status[w].kind = "timeout"
        /\ virgin[w] # Edges

\* the step of execute that writes the script, whether or not the write succeeds
SendsScript == drv.pc = "send" /\ drv'.pc # "send"

\* the step of execute that counts a finished execution
CountsExecution == drv.pc = "read" /\ drv'.pc = "idle"

\* C11: crt_executions never exceeds max_executions; no child instance runs
\* more than max_executions scripts to the end; and an execute call that
\* finds crt_executions >= max_executions sends its script only to a child
\* it has launched and handshaken itself, with the counter at zero, so that
\* the counter is one once that script is counted.
C11_ExecutionBudget ==
    /\ [](drv.crt_executions <= MaxExecutions /\ drv.completed <= MaxExecutions)
    /\ [][(SendsScript /\ drv.over)
            => (drv.fresh /\ drv.child = "ready" /\ drv.completed = 0
                /\ drv.crt_executions = 0)]_vars
    /\ [][(CountsExecution /\ drv.over) => drv'.crt_executions = 1]_vars

\* an execute call that found the budget spent has counted its script
C11_Witness ==
    /\ drv.pc = "idle"
    /\ drv.over
    /\ drv.fresh
    /\ drv.crt_executions = 1
    /\ drv.completed = 1

\* C12: every script for which the crash branch has written its file is,
\* in every later state, still the content of some crashes/crash_<iter>.js.
C12_CrashesKept ==
    \A c \in saved_crashes :
      \E i \in DOMAIN crash_files : crash_files[i] = c

\* the task t moves on from position pc
TaskLeaves(t, pc) == tasks[t].pc = pc /\ tasks'[t].pc # pc

\* crashes/crash_<iter>.js of the task T holds its script
CrashFileWritten(T) ==
    /\ OutputCrashPath(T.iteration) \in DOMAIN crash_files
    /\ crash_files[OutputCrashPath(T.iteration)] = T.code

\* C13: in the handling of a crash result, the steps that update the mutator's
\* statistics (from recv) and the corpus entry of the seed (under the first
\* lock) are taken only when crashes/crash_<iter>.js already holds the script.
C13_CrashWrittenFirst ==
    [][\A t \in 1 .. BatchSize :
         ((TaskLeaves(t, "recv") \/ TaskLeaves(t, "bookkeep"))
            /\ tasks'[t].res.is_crash /\ tasks'[t].pc # "done")
           => CrashFileWritten(tasks'[t])]_vars

\* the fingerprint add_entry computes for the new seed of the task T
TaskFingerprint(T) == ComputeFingerprint(T.code, SortedSeq(T.res.edge_hits))

\* C14: the result task goes on to add_entry for a new seed exactly when
\* new_coverage, status_code = 0 and not is_timeout; entries grows in the
\* handling of a result only in that add_entry, for a result that is no
\* crash, no timeout and has exit code 0, and whose fingerprint is new; and
\* that add_entry, when the fingerprint is new, appends the entry unless the
\* write of the seed file fails.
C14_EntryIffAccepted ==
    [][\A t \in 1 .. BatchSize :
         LET T == tasks[t]
             r == T.res
             fresh == ~ContainsFingerprint(entries, TaskFingerprint(T))
         IN  /\ TaskLeaves(t, "bookkeep")
                  => (tasks'[t].pc = "add"
                        <=> (r.new_coverage /\ r.status_code = 0 /\ ~r.is_timeout))
             /\ (tasks'[t] # T /\ Len(entries') > Len(entries))
                  => (/\ T.pc = "add"
                      /\ r.new_coverage /\ r.status_code = 0
                      /\ ~r.is_timeout /\ ~r.is_crash
                      /\ fresh)
             /\ (TaskLeaves(t, "add") /\ fresh)
                  => \/ /\ Len(entries') = Len(entries) + 1
                        /\ entries'[Len(entries')].fingerprint = TaskFingerprint(T)
                        /\ root_files'[entries'[Len(entries')].path] = T.code
                     \/ /\ ret'.val = "err"
                        /\ UNCHANGED <<entries, root_files>>
             /\ (TaskLeaves(t, "add") /\ ~fresh) => UNCHANGED entries]_vars

\* a result task has added a new seed
C14_Witness ==
    /\ total_iterations > 0
    /\ ret.op = "add_entry"
    /\ ret.val = "some"
    /\ ~ret.is_timeout
    /\ Len(entries) > 1

\* the step is a call of add_entry
AddEntryStep == ops' = ops + 1 /\ ret'.op = "add_entry"

\* the fingerprint of the pair handed to the add_entry call c
CallFingerprint(c) == ComputeFingerprint(c.bytes, c.edge_hits)

\* C15: no two entries of the manager have the same fingerprint.
C15_DistinctFingerprints ==
    \A i, j \in 1 .. Len(entries) :
      i # j => entries[i].fingerprint # entries[j].fingerprint

\* two entries are held and a third add_entry was turned down
C15_Witness ==
    /\ Len(entries) = 2
    /\ ret.op = "add_entry"
    /\ ret.val = "none"
    /\ ~ret.is_timeout

\* C16: an add_entry call whose pair has a fingerprint that an entry holds
\* returns None and leaves entries, next_id, the seed files, the timeout
\* files, metadata.json and metadata.json.tmp as they were.
C16_DuplicateNoEffect ==
    [][(AddEntryStep /\ ContainsFingerprint(entries, CallFingerprint(ret')))
         => (ret'.val = "none" /\ UNCHANGED <<memVars, diskVars>>)]_vars

\* an add_entry call for a pair that an entry holds has returned
C16_Witness ==
    /\ ret.op = "add_entry"
    /\ ret.val = "none"
    /\ ContainsFingerprint(entries, CallFingerprint(ret))
    /\ ops = 2

\* C17: no two entries have seed files with the same bytes.
C17_NoIdenticalScripts ==
    \A i, j \in 1 .. Len(entries) :
      (/\ i # j
       /\ entries[i].path \in DOMAIN root_files
       /\ entries[j].path \in DOMAIN root_files)
        => root_files[entries[i].path] # root_files[entries[j].path]

\* C18: an add_entry call with is_timeout never returns an entry and leaves
\* entries and the seed files as they were; when the fingerprint is new and
\* the call returns None, timeouts/seed_<id>.js holds the script.
C18_TimeoutNeverSeed ==
    [][(AddEntryStep /\ ret'.is_timeout)
         => (/\ ret'.val # "some"
             /\ UNCHANGED <<entries, root_files>>
             /\ (~ContainsFingerprint(entries, CallFingerprint(ret'))
                   /\ ret'.val = "none")
                  => (/\ next_id \in DOMAIN timeout_files'
                      /\ timeout_files'[next_id] = ret'.bytes))]_vars

\* an add_entry call with is_timeout has written the sidecar file
C18_Witness ==
    /\ ret.op = "add_entry"
    /\ ret.is_timeout
    /\ ret.val = "none"
    /\ \E id \in DOMAIN timeout_files : timeout_files[id] = ret.bytes
    /\ entries # <<>>

\* C19: the ids add_entry has put into file names are strictly increasing,
\* across stops and loads too, and next_id is above every entry's id.
C19_IdsNeverReused ==
    /\ \A i, j \in 1 .. Len(id_log) : i < j => id_log[i] < id_log[j]
    /\ (mgr_up /\ entries # <<>>) => next_id >= MaxId(entries) + 1

\* C20: every entry's file exists and is as long as the entry's size_bytes.
C20_EntryFilesExist ==
    mgr_up =>
      \A i \in 1 .. Len(entries) :
        /\ entries[i].path \in DOMAIN root_files
        /\ Len(root_files[entries[i].path]) = entries[i].size_bytes

\* a CorpusManager method returns without an error
ReturnsOk == ops' = ops + 1 /\ ret'.val \in {"some", "none", "ok"}

\* C21: after every CorpusManager method that changed next_id or entries and
\* returned without an error, metadata.json is the serialization of the
\* next_id and entries now in memory
C21_MetadataCurrent ==
    [][(ReturnsOk /\ <<entries', next_id'>> # <<entries, next_id>>)
         => metadata' = FileOf(ToVecPretty(entries', next_id'))]_vars

\* C22: metadata.json, when present, is a complete document, and every step
\* that changes it, whatever call makes it and wherever the process stops,
\* sets it to the serialization of the next_id and entries the manager holds
\* in that persist call
C22_MetadataNeverCorrupt ==
    /\ [](metadata.exists => Complete(metadata.blob))
    /\ [][metadata' # metadata
            => /\ mgr_up'
               /\ metadata' = FileOf(ToVecPretty(entries', next_id'))]_vars

\* metadata.json holds an earlier document while a later one was cut short in
\* metadata.json.tmp and the process has stopped
C22_Witness ==
    /\ ~mgr_up
    /\ metadata.exists /\ Complete(metadata.blob)
    /\ metadata_tmp.exists /\ ~Complete(metadata_tmp.blob)
    /\ metadata_tmp.blob[1] # metadata.blob[1]

\* the worker schedule_job probes next
Probed == (next_worker + sched.offset) % NumWorkers

\* C23: schedule_job probes the workers in cyclic order from next_worker; it
\* passes a worker only when that worker's queue is full, hands the job to the
\* first one that is not and sets next_worker to that worker's index + 1
\* modulo N; a closed channel ends the call with an error and leaves
\* next_worker as it was
C23_RoundRobin ==
    /\ [][(sched.pc = "probing" /\ sched'.pc = "probing"
            /\ sched'.offset = sched.offset + 1)
           => /\ Len(queues[Probed]) = QueueSize
              /\ wpc[Probed] # "exited"
              /\ next_worker' = next_worker /\ queues' = queues]_vars
    /\ [][(sched.pc = "probing" /\ jst'[sched.job] = "queued")
           => /\ Len(queues[Probed]) < QueueSize
              /\ queues' = [queues EXCEPT ![Probed] = Append(@, sched.job)]
              /\ next_worker' = (Probed + 1) % NumWorkers]_vars
    /\ [][(sched.pc = "probing" /\ jst'[sched.job] = "rejected")
           => /\ wpc[Probed] = "exited"
              /\ next_worker' = next_worker /\ queues' = queues]_vars
    /\ [][next_worker' # next_worker
           => (sched.pc = "probing" /\ jst'[sched.job] = "queued")]_vars

\* a job sits in the queue of a worker other than the one its number would
\* give it, with no call rejected: a full queue was passed on the way
C23_Witness ==
    /\ \A j \in JobIds : jst[j] # "rejected"
    /\ \E w \in Workers : \E i \in 1 .. Len(queues[w]) :
         w # (queues[w][i] - 1) % NumWorkers

\* the result task t receives a JobResult and updates the mutator's stats
ReceivesResult(t) == tasks[t].pc = "recv" /\ tasks'[t].pc = "bookkeep"

\* C24: for each result a task receives, total_reward grows by the reward and
\* last_reward becomes the reward, once; invalid_count grows by one iff the
\* result timed out or its status code is not zero; timeout_count grows by one
\* iff it timed out; nothing else changes these four
C24_StatsPerResult ==
    /\ [][\A t \in 1 .. BatchSize :
            ReceivesResult(t)
            => LET r == tasks'[t].res
                   reward == ComputeReward(r)
               IN  /\ stats'.total_reward = stats.total_reward + reward
                   /\ stats'.last_reward = reward
                   /\ stats'.invalid_count = stats.invalid_count
                        + (IF r.is_timeout \/ r.status_code # 0 THEN 1 ELSE 0)
                   /\ stats'.timeout_count = stats.timeout_count
                        + (IF r.is_timeout THEN 1 ELSE 0)]_vars
    /\ [][(\A t \in 1 .. BatchSize : ~ReceivesResult(t))
           => /\ stats'.total_reward = stats.total_reward
              /\ stats'.last_reward = stats.last_reward
              /\ stats'.invalid_count = stats.invalid_count
              /\ stats'.timeout_count = stats.timeout_count]_vars

\* a timeout and a result with a non-zero status that did not time out have
\* both been counted
C24_Witness ==
    /\ stats.invalid_count = 2
    /\ stats.timeout_count = 1
    /\ stats.total_reward # 0

\* start_internal of worker w ends without a call of confirm_new_edges
StartEnds(w) == wpc[w] = "start" /\ wpc'[w] = "send"

\* C25: a result with new_coverage lists at least one edge, and only edges
\* that both runs of its job reported, that were not in seen and that are
\* below the blacklist threshold when the tracker is updated; a result whose
\* confirmed subset is empty, and a result made without the re-check, has
\* new_coverage = false
C25_NewCoverageIsStable ==
    /\ [](\A w \in Workers :
            (wpc[w] = "send" /\ wres[w].new_coverage) => wres[w].edge_hits # {})
    /\ [][\A w \in Workers :
            /\ ConfirmStep(w)
               => /\ \A e \in wres'[w].edge_hits :
                       /\ e \in cand[w] /\ e \in second'[w]
                       /\ e \notin seen
                       /\ blacklist'[e] < MaxResets
                  /\ wres'[w].edge_hits = {} => ~wres'[w].new_coverage
            /\ StartEnds(w)
               => ~wres'[w].new_coverage /\ wres'[w].edge_hits = {}]_vars

\* a result with new_coverage waits to be sent; an edge that both runs
\* reported is left out of it
C25_Witness ==
    \E w \in Workers :
        /\ wpc[w] = "send"
        /\ wres[w].new_coverage /\ wres[w].edge_hits # {}
        /\ \E e \in cand[w] : e \in second[w] /\ e \notin wres[w].edge_hits

\* worker w calls execute below the budget: "exec" goes to the child it holds
WritesExec(w) ==
    /\ wpc[w] \in {"start", "confirm"}
    /\ wpc'[w] # wpc[w]
    /\ crt[w] < MaxExecutions

\* C26: "exec" is never written to a child that was spawned and has not
\* completed the HELO handshake, in the first run and in the re-run of a job,
\* also after a restart or a handshake that followed a timeout or a crash
C26_ExecOnlyAfterHandshake ==
    [][\A w \in Workers : WritesExec(w) => proc[w] # "spawned"]_vars

\* C27: an edge is listed in the edge_hits of at most one result. A result
\* gets its edges only in its worker's tracker update; the edges it gets were
\* not in seen before and are in seen after; seen never loses an edge; so the
\* results waiting to be sent list disjoint sets of edges, all of them in seen,
\* and no later result can list any of them
C27_EdgeCreditedOnce ==
    /\ [](\A w \in Workers :
            /\ wres[w].edge_hits \subseteq seen
            /\ \A v \in Workers \ {w} :
                 wres[w].edge_hits \cap wres[v].edge_hits = {})
    /\ [][/\ seen \subseteq seen'
          /\ \A w \in Workers :
               /\ ConfirmStep(w)
                  => /\ wres'[w].edge_hits \cap seen = {}
                     /\ wres'[w].edge_hits \subseteq seen'
               /\ (wres'[w].edge_hits # {} /\ wres'[w] # wres[w])
                  => ConfirmStep(w)]_vars

\* two results wait to be sent; both jobs reported the edge e in both of their
\* runs, and only one of the results lists it
C27_Witness ==
    \E w, v \in Workers, e \in Edges :
        /\ w # v
        /\ wpc[w] = "send" /\ wpc[v] = "send"
        /\ e \in cand[w] /\ e \in second[w] /\ e \in wres[w].edge_hits
        /\ e \in cand[v] /\ e \in second[v] /\ e \notin wres[v].edge_hits
        /\ ~Blacklisted(e)

\* the workers schedule_job has not probed yet in its pass
Unprobed == {(next_worker + k) % NumWorkers : k \in sched.offset .. (NumWorkers - 1)}

\* C28: while schedule_job holds a permit and every worker channel is open,
\* a worker it has not probed yet in its first pass has room in its queue;
\* the pass never ends with every queue found full
C28_FirstPassFinds ==
    sched.pc = "probing"
    => /\ sched.offset < NumWorkers
       /\ (\A w \in Workers : wpc[w] # "exited")
          => \E w \in Unprobed : Len(queues[w]) < QueueSize

\* schedule_job holds the last permit and has passed a full queue; the worker
\* it probes next has room
C28_Witness ==
    /\ sched.pc = "probing" /\ sched.offset = 1
    /\ permits = 0
    /\ \A w \in Workers : wpc[w] # "exited"
    /\ Len(queues[next_worker]) = QueueSize
    /\ Len(queues[Probed]) < QueueSize

\* the scripts that are stmts with block inserted, whole and in order, at one
\* index of one statement list
RECURSIVE Insertions(_, _)
RECURSIVE StmtInsertions(_, _)
Insertions(stmts, block) ==
    {SubSeq(stmts, 1, i) \o block \o SubSeq(stmts, i + 1, Len(stmts)) :
       i \in 0 .. Len(stmts)}
    \cup UNION {{[stmts EXCEPT ![j] = s] : s \in StmtInsertions(stmts[j], block)} :
                 j \in 1 .. Len(stmts)}

StmtInsertions(s, block) ==
    IF s.kind \in {"fn", "block"}
    THEN {[s EXCEPT !.kids = l] : l \in Insertions(s.kids, block)}
    ELSE IF s.kind = "if"
    THEN {[s EXCEPT !.kids = <<c>>] : c \in StmtInsertions(s.kids[1], block)}
    ELSE {}

\* C29: splice returns the host with the drawn donor statements inserted
\* once, as one block in the order they were drawn, into one statement list,
\* the host statements otherwise as they were, for every insertion index from
\* 0 to the number of host statements; a donor without statements returns
\* the host
C29_SpliceInsertsBlock ==
    spl.pc = "done"
    => IF spl.donor_stmts = <<>>
       THEN spl.out = spl.host
       ELSE spl.out \in Insertions(spl.host, spl.donor_stmts)

\* the names a script declares: variables and functions
RECURSIVE DeclaredNames(_)
DeclaredNames(list) ==
    IF list = <<>> THEN {}
    ELSE LET s == Head(list)
         IN  (IF s.kind \in {"let", "fn"} THEN {s.name} ELSE {})
             \cup DeclaredNames(s.kids) \cup DeclaredNames(Tail(list))

\* C30: after the renaming no name the donor declares equals a name that
\* occurs in the host, as an identifier or as a function name
C30_DonorNamesFresh ==
    spl.pc # "idle"
    => DeclaredNames(spl.donor) \cap (VarNames(spl.host) \cup FuncNames(spl.host)) = {}


====
